---- MODULE Spec2Model ----
(***************************************************************************)
(* SysTrack: the diagnostic aggregation and reporting pipeline.            *)
(*                                                                         *)
(*   src/src/network_check.py  ping_host, run_ookla_speedtest, formatters  *)
(*   src/src/system_info.py    get_system_info, generate_summary_line      *)
(*   src/src/report_writer.py  format_report, save_text_report, ...        *)
(*   src/app.py                the web dispatcher and its verbs            *)
(*   src/src/systrack.py       the CLI entry point                         *)
(*                                                                         *)
(* Text is modelled as TLA+ strings, a multi-line text as a sequence of    *)
(* lines, and the output of the ping tool as a sequence of lines of        *)
(* one-character strings so that the scanning of it is computed.           *)
(* Floats are fixed-point integers: a latency is in thousandths of a       *)
(* millisecond, a percentage in hundredths of a percent, a size in         *)
(* hundredths of a GiB.                                                    *)
(***************************************************************************)
EXTENDS Integers, Sequences, FiniteSets, TLC

VARIABLES
    probe_log,      \* SpecProbe: the ping_host invocations made so far
    sl_info,        \* SpecSummary: the snapshot handed to generate_summary_line
    sl_net,         \* SpecSummary: the network result handed to it
    sl_out,         \* SpecSummary: what it returned (NotRun before the call)
    proc,           \* the frame of each request: where it is, its locals
    files,          \* the files of the reports directory
    dir_exists,     \* whether the reports directory exists
    clock,          \* the wall clock, in minutes
    nreq,           \* the requests started so far
    gs_reading,     \* SpecCollect: what psutil and platform answer
    gs_out,         \* SpecCollect: what get_system_info returned or raised
    rt_pc,          \* SpecRoundTrip: "new", then "saved", then "loaded"
    rt_data,        \* SpecRoundTrip: the data handed to save_json_report
    rt_file,        \* SpecRoundTrip: the characters of the file written
    rt_loaded       \* SpecRoundTrip: what json.load made of the file

vars == <<probe_log, sl_info, sl_net, sl_out, proc, files, dir_exists, clock, nreq,
          gs_reading, gs_out, rt_pc, rt_data, rt_file, rt_loaded>>

(***************************************************************************)
(* Bounds of the model.                                                    *)
(***************************************************************************)
MaxCalls == 2       \* ping_host invocations in one run of SpecProbe
MaxRequests == 1    \* requests of the client in one run of Spec
MaxTicks == 1       \* minutes that pass in one run

\* The requests that may be in flight together (SpecRace).
Procs == {1, 2}

(***************************************************************************)
(* Python values.                                                          *)
(***************************************************************************)
\* None, for an optional number (every number of the program here is >= 0
\* or a difference that is compared with None nowhere).
None == 0 - 1

\* bool(x) of an optional number: None and 0 (0.0) are false.
Truthy(x) == x # None /\ x # 0

\* round-half-to-even of v / unit, for v >= 0 (what format(x, '.Nf') and
\* round() yield on a value whose tie is exactly representable).
RoundHalfEven(v, unit) ==
    LET q == v \div unit
        r == v % unit
    IN  IF 2 * r < unit THEN q
        ELSE IF 2 * r > unit THEN q + 1
        ELSE IF q % 2 = 0 THEN q ELSE q + 1

Pad2(n) == IF n < 10 THEN "0" \o ToString(n) ELSE ToString(n)

\* f"{x:.0f}" of a latency in thousandths.
Fmt0f(v) == ToString(RoundHalfEven(v, 1000))

\* f"{x:.2f}" of a latency in thousandths.
Fmt2f(v) ==
    LET h == RoundHalfEven(v, 10)
    IN  ToString(h \div 100) \o "." \o Pad2(h % 100)

\* f"{x:.1f}" of a percentage in hundredths.
Fmt1f(p) ==
    LET t == RoundHalfEven(p, 10)
    IN  ToString(t \div 10) \o "." \o ToString(t % 10)

\* sep.join(parts)
RECURSIVE Join(_, _)
Join(parts, sep) ==
    IF parts = <<>> THEN ""
    ELSE IF Len(parts) = 1 THEN parts[1]
    ELSE parts[1] \o sep \o Join(Tail(parts), sep)

(***************************************************************************)
(* ping_host: the scan of the tool's output.                               *)
(***************************************************************************)
UpperAlpha == <<"A","B","C","D","E","F","G","H","I","J","K","L","M",
                "N","O","P","Q","R","S","T","U","V","W","X","Y","Z">>
LowerAlpha == <<"a","b","c","d","e","f","g","h","i","j","k","l","m",
                "n","o","p","q","r","s","t","u","v","w","x","y","z">>

\* str.lower(), one character.
LowerChar(c) ==
    IF \E i \in 1..Len(UpperAlpha) : UpperAlpha[i] = c
    THEN LowerAlpha[CHOOSE i \in 1..Len(UpperAlpha) : UpperAlpha[i] = c]
    ELSE c

\* result.stdout.lower(), kept split at '\n'.
LowerOutput(stdout) ==
    [i \in 1..Len(stdout) |-> [j \in 1..Len(stdout[i]) |-> LowerChar(stdout[i][j])]]

Digits == <<"0","1","2","3","4","5","6","7","8","9">>
IsDigit(c) == \E i \in 1..Len(Digits) : Digits[i] = c
DigitVal(c) == (CHOOSE i \in 1..Len(Digits) : Digits[i] = c) - 1

\* line[i..] starts with pat.
StartsAt(line, i, pat) ==
    /\ i + Len(pat) - 1 <= Len(line)
    /\ \A k \in 1..Len(pat) : line[i + k - 1] = pat[k]

\* pat in line
Contains(line, pat) == \E i \in 1..Len(line) : StartsAt(line, i, pat)

TimeEq == <<"t","i","m","e","=">>
TimeLt == <<"t","i","m","e","<">>

\* The end of the longest run of digits of line that starts at i (i - 1
\* when line[i] is no digit): \d* is greedy.
RECURSIVE DigitsEnd(_, _)
DigitsEnd(line, i) ==
    IF i <= Len(line) /\ IsDigit(line[i]) THEN DigitsEnd(line, i + 1) ELSE i - 1

\* The decimal value of the digits line[a..b].
RECURSIVE DigitsValue(_, _, _)
DigitsValue(line, a, b) ==
    IF a > b THEN 0 ELSE DigitsValue(line, a, b - 1) * 10 + DigitVal(line[b])

\* Where re.search(r'time[<=](\d+\.?\d*)', line) matches: the leftmost i
\* with "time", then < or =, then a digit; 0 when there is no match.
MatchStart(line) ==
    LET ok(i) == /\ (StartsAt(line, i, TimeEq) \/ StartsAt(line, i, TimeLt))
                 /\ i + 5 <= Len(line)
                 /\ IsDigit(line[i + 5])
    IN  IF \E i \in 1..Len(line) : ok(i)
        THEN CHOOSE i \in 1..Len(line) : ok(i) /\ \A j \in 1..(i - 1) : ~ok(j)
        ELSE 0

\* float(match.group(1)), in thousandths; the sample outputs carry at most
\* three fraction digits, as the ping tools print.
MatchValue(line) ==
    LET s  == MatchStart(line) + 5
        e1 == DigitsEnd(line, s)
        dot == e1 + 1 <= Len(line) /\ line[e1 + 1] = "."
        e2 == IF dot THEN DigitsEnd(line, e1 + 2) ELSE e1
        nfrac == IF dot THEN e2 - (e1 + 1) ELSE 0
        frac == IF dot THEN DigitsValue(line, e1 + 2, e2) ELSE 0
        scale == CASE nfrac = 0 -> 1000 [] nfrac = 1 -> 100
                   [] nfrac = 2 -> 10 [] OTHER -> 1
    IN  DigitsValue(line, s, e1) * 1000 + frac * scale

\* The loop over the lines: the first line that holds time= or time< and
\* that the pattern matches sets the latency and ends the loop; a line that
\* holds the token and does not match is passed over.
RECURSIVE ScanLines(_, _)
ScanLines(lines, i) ==
    IF i > Len(lines) THEN None
    ELSE IF /\ (Contains(lines[i], TimeEq) \/ Contains(lines[i], TimeLt))
            /\ MatchStart(lines[i]) # 0
         THEN MatchValue(lines[i])
         ELSE ScanLines(lines, i + 1)

ParseLatency(stdout) ==
    LET output == LowerOutput(stdout)
    IN  IF \E i \in 1..Len(output) :
               Contains(output[i], TimeEq) \/ Contains(output[i], TimeLt)
        THEN ScanLines(output, 1)
        ELSE None

(***************************************************************************)
(* ping_host.  `run` is what subprocess.run did: it completed with a       *)
(* return code and an output, or it raised.                                *)
(***************************************************************************)
Completed(rc, stdout) == [kind |-> "completed", returncode |-> rc,
                          stdout |-> stdout, detail |-> ""]
RunRaised(exc, detail) == [kind |-> exc, returncode |-> None,
                           stdout |-> <<>>, detail |-> detail]

\* subprocess.run raising after the ping process has exited with status
\* rc: with text=True the output is decoded once the process is done, and
\* an output that the locale's codec cannot decode raises.
RunRaisedAfterExit(exc, rc, detail) ==
    [RunRaised(exc, detail) EXCEPT !.returncode = rc]

NetworkResult(online, host, latency, message) ==
    [online |-> online, host |-> host, latency_ms |-> latency, message |-> message]

\* The value slot of a call that raised.
NoValue == <<>>
Returned(v) == [raised |-> FALSE, error |-> "", value |-> v]
Raised(msg) == [raised |-> TRUE, error |-> msg, value |-> NoValue]

OnlineMessage(host, latency_ms) ==
    IF Truthy(latency_ms)
    THEN "Online (Ping " \o host \o ": " \o Fmt0f(latency_ms) \o "ms)"
    ELSE "Online (Ping " \o host \o ": Success)"

\* ping_host without its `except FileNotFoundError` clause: the absent tool
\* falls to `except Exception`.
ping_host_no_reraise(host, run) ==
    CASE run.kind = "completed" ->
           IF run.returncode = 0
           THEN LET latency_ms == ParseLatency(run.stdout)
                IN  Returned(NetworkResult(TRUE, host, latency_ms,
                                           OnlineMessage(host, latency_ms)))
           ELSE Returned(NetworkResult(FALSE, host, None,
                         "Offline (Unable to reach " \o host \o ")"))
      [] run.kind = "TimeoutExpired" ->
           Returned(NetworkResult(FALSE, host, None,
                    "Offline (Timeout connecting to " \o host \o ")"))
      [] OTHER ->
           Returned(NetworkResult(FALSE, host, None,
                    "Offline (Error: " \o run.detail \o ")"))

ping_host(host, run) ==
    CASE run.kind = "completed" ->
           IF run.returncode = 0
           THEN LET latency_ms == ParseLatency(run.stdout)
                IN  Returned(NetworkResult(TRUE, host, latency_ms,
                                           OnlineMessage(host, latency_ms)))
           ELSE Returned(NetworkResult(FALSE, host, None,
                         "Offline (Unable to reach " \o host \o ")"))
      [] run.kind = "TimeoutExpired" ->
           Returned(NetworkResult(FALSE, host, None,
                    "Offline (Timeout connecting to " \o host \o ")"))
      [] run.kind = "FileNotFoundError" ->
           Raised("ping command not found. Network diagnostics unavailable.")
      [] OTHER ->
           Returned(NetworkResult(FALSE, host, None,
                    "Offline (Error: " \o run.detail \o ")"))

(***************************************************************************)
(* Sample outputs of the ping tool (stdout, split at '\n').                *)
(***************************************************************************)
OutLinux ==
    <<<<"P","I","N","G"," ","g">>,
      <<"t","t","l","=","5","7"," ","t","i","m","e","=","4","3",".","2"," ","m","s">>>>
OutWindows ==
    <<<<"R","e","p","l","y",":"," ","b","y","t","e","s","=","3","2"," ","T","I","M","E","<","1","m","s"," ","T","T","L","=","1","2","8">>>>
OutZero ==
    <<<<"t","t","l","=","6","4"," ","t","i","m","e","=","0",".","0"," ","m","s">>>>
OutZeroInt ==
    <<<<"t","i","m","e","=","0"," ","m","s">>>>
OutSubMs ==
    <<<<"t","i","m","e","=","0",".","4"," ","m","s">>>>
OutHalf ==
    <<<<"t","i","m","e","=","n","/","a">>,
      <<"t","i","m","e","=","2",".","5"," ","m","s">>>>
OutMicro ==
    <<<<"t","t","l","=","6","4"," ","t","i","m","e","=","0",".","0","4","2"," ","m","s">>>>
OutNoToken ==
    <<<<"1"," ","r","e","c","e","i","v","e","d",","," ","0","%"," ","l","o","s","s">>>>
OutNoMatch ==
    <<<<"t","i","m","e","=","?">>>>
OutEmpty ==
    <<>>
SampleOutputs ==
    {OutLinux, OutWindows, OutZero, OutZeroInt, OutSubMs, OutHalf, OutMicro, OutNoToken, OutNoMatch, OutEmpty}

Hosts == {"google.com", "10.0.0.9"}

\* What subprocess.run can do: exit 0 with an output, exit nonzero, or raise.
SampleRuns ==
    {Completed(0, out) : out \in SampleOutputs}
    \cup {Completed(1, OutNoToken), Completed(2, OutLinux)}
    \cup {RunRaised("TimeoutExpired", ""),
          RunRaised("FileNotFoundError", "[Errno 2] No such file or directory: 'ping'"),
          RunRaised("PermissionError", "[Errno 13] Permission denied: 'ping'"),
          RunRaised("OSError", "[Errno 12] Cannot allocate memory"),
          RunRaisedAfterExit("UnicodeDecodeError", 0,
              "'utf-8' codec can't decode byte 0x81 in position 16: invalid start byte")}

(***************************************************************************)
(* generate_summary_line.                                                  *)
(***************************************************************************)
HighUsagePercent == 80

\* The threshold taken the other way at the boundary (<= for <).
UsageStatusInclusive(usage_percent) ==
    IF usage_percent <= HighUsagePercent * 100 THEN "Normal" ELSE "High"

\* "Normal" if usage_percent < 80 else "High" (usage in hundredths).
UsageStatus(usage_percent) ==
    IF usage_percent < HighUsagePercent * 100 THEN "Normal" ELSE "High"

\* network_info.get('online'), then ping = network_info.get('latency_ms', 0)
\* and `if ping:`.
NetStatus(network_info) ==
    IF network_info.online
    THEN LET ping == network_info.latency_ms
         IN  IF Truthy(ping) THEN "Online (" \o Fmt0f(ping) \o "ms)" ELSE "Online"
    ELSE "Offline"

status_parts(info, network_info) ==
    << "CPU: " \o UsageStatus(info.cpu.usage_percent),
       "Memory: " \o UsageStatus(info.memory.usage_percent),
       "Disk: " \o UsageStatus(info.disk.usage_percent),
       "Network: " \o NetStatus(network_info) >>

generate_summary_line(info, network_info) ==
    Join(status_parts(info, network_info), " | ")

(***************************************************************************)
(* get_system_info.  `reading` is what psutil and platform answer: sizes   *)
(* in MiB (2^20 bytes), percentages in hundredths; `error` is the message  *)
(* of the query that failed, "" when none did.                             *)
(***************************************************************************)
MiBPerGiB == 1024

\* round(v / unit) to the nearest, ties to even, for any sign.
RoundSigned(v, unit) ==
    IF v >= 0 THEN RoundHalfEven(v, unit) ELSE 0 - RoundHalfEven(0 - v, unit)

\* round(bytes / (1024 ** 3), 2), in hundredths of a GiB.
ToGb(mib) == RoundSigned(mib * 100, MiBPerGiB)

Reading(cpu, mem, disk, free, available) ==
    [error |-> "",
     cpu_percent |-> cpu, cpu_count |-> 8,
     memory |-> [percent |-> mem, total |-> 16384, used |-> 9000,
                 free |-> free, available |-> available],
     disk |-> [percent |-> disk, total |-> 512000, used |-> 200000, free |-> 312000],
     os |-> [name |-> "Linux", version |-> "#1 SMP", release |-> "6.1.0",
             platform |-> "Linux-6.1.0-x86_64"]]

FailedReading(msg) == [Reading(0, 0, 0, 0, 0) EXCEPT !.error = msg]

\* get_system_info raising without the cause in its message.
get_system_info_no_cause(reading) ==
    IF reading.error # ""
    THEN Raised("Failed to collect system information")
    ELSE Returned(
      [cpu |-> [usage_percent |-> reading.cpu_percent,
                core_count |-> reading.cpu_count],
       memory |-> [usage_percent |-> reading.memory.percent,
                   total_gb |-> ToGb(reading.memory.total),
                   used_gb |-> ToGb(reading.memory.used),
                   free_gb |-> ToGb(reading.memory.free),
                   available_gb |-> ToGb(reading.memory.available),
                   cached_gb |-> ToGb(reading.memory.available - reading.memory.free)],
       disk |-> [usage_percent |-> reading.disk.percent,
                 total_gb |-> ToGb(reading.disk.total),
                 used_gb |-> ToGb(reading.disk.used),
                 free_gb |-> ToGb(reading.disk.free)],
       os |-> reading.os])

get_system_info(reading) ==
    IF reading.error # ""
    THEN Raised("Failed to collect system information: " \o reading.error)
    ELSE Returned(
      [cpu |-> [usage_percent |-> reading.cpu_percent,
                core_count |-> reading.cpu_count],
       memory |-> [usage_percent |-> reading.memory.percent,
                   total_gb |-> ToGb(reading.memory.total),
                   used_gb |-> ToGb(reading.memory.used),
                   free_gb |-> ToGb(reading.memory.free),
                   available_gb |-> ToGb(reading.memory.available),
                   cached_gb |-> ToGb(reading.memory.available - reading.memory.free)],
       disk |-> [usage_percent |-> reading.disk.percent,
                 total_gb |-> ToGb(reading.disk.total),
                 used_gb |-> ToGb(reading.disk.used),
                 free_gb |-> ToGb(reading.disk.free)],
       os |-> reading.os])

(***************************************************************************)
(* SpecProbe: ping_host called up to MaxCalls times, each time on a host   *)
(* and with an outcome of the ping process.                                *)
(***************************************************************************)
probeVars == <<probe_log>>
summaryVars == <<sl_info, sl_net, sl_out>>
pipeVars == <<proc, files, dir_exists, clock, nreq>>
collectVars == <<gs_reading, gs_out>>
jsonVars == <<rt_pc, rt_data, rt_file, rt_loaded>>

NotRun == "(not run)"

ProbeIdle == probe_log = <<>>
SummaryIdle == sl_info = NoValue /\ sl_net = NoValue /\ sl_out = NotRun
CollectIdle == gs_reading = NoValue /\ gs_out = NoValue
JsonIdle == rt_pc = "idle" /\ rt_data = NoValue /\ rt_file = <<>> /\ rt_loaded = NoValue

\* No request was made.
PipeIdle ==
    /\ proc = [p \in Procs |-> NoValue]
    /\ files = <<>>
    /\ dir_exists = FALSE
    /\ clock = 0
    /\ nreq = 0

InitProbe == ProbeIdle /\ SummaryIdle /\ PipeIdle /\ CollectIdle /\ JsonIdle

Ping(host, run) ==
    /\ Len(probe_log) < MaxCalls
    /\ probe_log' = Append(probe_log,
                           [host |-> host, run |-> run, result |-> ping_host(host, run)])
    /\ UNCHANGED <<summaryVars, pipeVars, collectVars, jsonVars>>

NextProbe == \E host \in Hosts, run \in SampleRuns : Ping(host, run)

SpecProbe == InitProbe /\ [][NextProbe]_vars

(***************************************************************************)
(* SpecSummary: generate_summary_line applied to a snapshot and a network  *)
(* result.                                                                 *)
(***************************************************************************)
UsageSamples == {0, 7999, 8000, 10000}

\* Latencies in thousandths of a millisecond; None is the absent latency.
LatencySamples == {None, 0, 400, 2500, 43200}

NetSamples ==
    {NetworkResult(online, "google.com", l, "") :
        online \in BOOLEAN, l \in LatencySamples}

InitSummary ==
    /\ ProbeIdle /\ PipeIdle /\ CollectIdle /\ JsonIdle
    /\ \E c \in UsageSamples, m \in UsageSamples, d \in UsageSamples :
          sl_info = get_system_info(Reading(c, m, d, 4000, 6000)).value
    /\ sl_net \in NetSamples
    /\ sl_out = NotRun

SummaryLine ==
    /\ sl_out = NotRun
    /\ sl_out' = generate_summary_line(sl_info, sl_net)
    /\ UNCHANGED <<sl_info, sl_net>>
    /\ UNCHANGED <<probeVars, pipeVars, collectVars, jsonVars>>

NextSummary == SummaryLine

SpecSummary == InitSummary /\ [][NextSummary]_vars

(***************************************************************************)
(* The formatters.  A text is the sequence of its lines: "\n".join(lines)  *)
(* nested in another join is the concatenation of the sequences.           *)
(***************************************************************************)
\* str(x) of a float kept to 2 decimals, in hundredths: the shortest
\* repr, with at least one fraction digit.
PyFloat2(h) ==
    LET a == IF h < 0 THEN 0 - h ELSE h
        f == a % 100
    IN  (IF h < 0 THEN "-" ELSE "") \o ToString(a \div 100) \o "."
        \o (IF f % 10 = 0 THEN ToString(f \div 10) ELSE Pad2(f))

format_system_info_summary(info) ==
    << "OS: " \o info.os.name \o " " \o info.os.release,
       "CPU Usage: " \o Fmt1f(info.cpu.usage_percent) \o "%",
       "Memory Usage: " \o Fmt1f(info.memory.usage_percent) \o "%",
       "Disk Usage: " \o Fmt1f(info.disk.usage_percent) \o "%" >>

format_system_info_detailed(info) ==
    << "=== System Information ===",
       "Operating System: " \o info.os.name \o " " \o info.os.release,
       "OS Version: " \o info.os.version,
       "Platform: " \o info.os.platform,
       "",
       "=== CPU Information ===",
       "CPU Usage: " \o Fmt1f(info.cpu.usage_percent) \o "%",
       "CPU Cores: " \o ToString(info.cpu.core_count),
       "",
       "=== Memory Information ===",
       "Memory Usage: " \o Fmt1f(info.memory.usage_percent) \o "%",
       "Total Memory: " \o PyFloat2(info.memory.total_gb) \o " GB",
       "Used Memory: " \o PyFloat2(info.memory.used_gb) \o " GB",
       "Free Memory: " \o PyFloat2(info.memory.free_gb) \o " GB",
       "Available Memory: " \o PyFloat2(info.memory.available_gb)
           \o " GB (includes " \o PyFloat2(info.memory.cached_gb) \o " GB cache)",
       "",
       "=== Disk Information ===",
       "Disk Usage: " \o Fmt1f(info.disk.usage_percent) \o "%",
       "Total Disk Space: " \o PyFloat2(info.disk.total_gb) \o " GB",
       "Used Disk Space: " \o PyFloat2(info.disk.used_gb) \o " GB",
       "Free Disk Space: " \o PyFloat2(info.disk.free_gb) \o " GB",
       "Note: Some space may be reserved by the system or unavailable",
       "" >>

format_network_info_summary(network_info) ==
    IF network_info.online /\ network_info.latency_ms # None
    THEN << "Network: " \o network_info.message,
            "Ping Time: " \o Fmt0f(network_info.latency_ms) \o " ms" >>
    ELSE << "Network: " \o network_info.message >>

format_network_info_detailed(network_info) ==
    << "=== Network Diagnostics ===",
       "Host Tested: " \o network_info.host,
       "Status: " \o (IF network_info.online THEN "Online" ELSE "Offline") >>
    \o (IF network_info.latency_ms # None
        THEN << "Ping Time: " \o Fmt2f(network_info.latency_ms) \o " ms" >>
        ELSE << >>)
    \o << "Message: " \o network_info.message, "" >>

(***************************************************************************)
(* The clock, in minutes since 2024-03-05 14:07, and strftime.             *)
(***************************************************************************)
MinuteOfDay(now) == (14 * 60 + 7 + now) % (24 * 60)
DayOfMonth(now) == 5 + (14 * 60 + 7 + now) \div (24 * 60)

\* datetime.now().strftime("%Y-%m-%d")
generate_date_header(now) == "2024-03-" \o Pad2(DayOfMonth(now))

\* datetime.now().strftime("%Y-%m-%d_%H-%M")
generate_timestamp(now) ==
    generate_date_header(now) \o "_" \o Pad2(MinuteOfDay(now) \div 60)
        \o "-" \o Pad2(MinuteOfDay(now) % 60)

\* datetime.now().isoformat(), to the minute the model's clock keeps
isoformat(now) ==
    generate_date_header(now) \o "T" \o Pad2(MinuteOfDay(now) \div 60)
        \o ":" \o Pad2(MinuteOfDay(now) % 60) \o ":00"

\* "-" * n
RECURSIVE Dashes(_)
Dashes(n) == IF n = 0 THEN "" ELSE "-" \o Dashes(n - 1)

\* format_report: any mode other than "detailed" is the summary.
format_report(system_info, network_info, mode, now) ==
    LET header == "SysTrack Diagnostic Report - " \o generate_date_header(now)
        separator == Dashes(Len(header))
        system_text == IF mode = "detailed"
                       THEN format_system_info_detailed(system_info)
                       ELSE format_system_info_summary(system_info)
        network_text == IF mode = "detailed"
                        THEN format_network_info_detailed(network_info)
                        ELSE format_network_info_summary(network_info)
        summary_line == generate_summary_line(system_info, network_info)
    IN  << header, separator, "", "System Status: " \o summary_line, "",
           separator, "" >>
        \o system_text \o << "" >> \o network_text

(***************************************************************************)
(* json.dump(data, f, indent=2, ensure_ascii=False), as the lines written. *)
(***************************************************************************)
\* repr of a float held in thousandths: the shortest digits, at least one
\* fraction digit.
PyFloat3(v) ==
    LET f == v % 1000
    IN  ToString(v \div 1000) \o "."
        \o (IF f % 100 = 0 THEN ToString(f \div 100)
            ELSE IF f % 10 = 0 THEN Pad2(f \div 10)
            ELSE (IF f < 100 THEN "0" ELSE "") \o Pad2(f))

\* A JSON string; the strings of the model hold no character that
\* json escapes (no double quote, no backslash, no control character).
JsonStr(s) == "\"" \o s \o "\""

JsonBool(b) == IF b THEN "true" ELSE "false"

JsonLatency(l) == IF l = None THEN "null" ELSE PyFloat3(l)

JsonDump(data) ==
    << "{",
       "  \"date\": " \o JsonStr(data.date) \o ",",
       "  \"system\": {",
       "    \"cpu\": {",
       "      \"usage_percent\": " \o PyFloat2(data.system.cpu.usage_percent) \o ",",
       "      \"core_count\": " \o ToString(data.system.cpu.core_count),
       "    },",
       "    \"memory\": {",
       "      \"usage_percent\": " \o PyFloat2(data.system.memory.usage_percent) \o ",",
       "      \"total_gb\": " \o PyFloat2(data.system.memory.total_gb) \o ",",
       "      \"used_gb\": " \o PyFloat2(data.system.memory.used_gb) \o ",",
       "      \"free_gb\": " \o PyFloat2(data.system.memory.free_gb) \o ",",
       "      \"available_gb\": " \o PyFloat2(data.system.memory.available_gb) \o ",",
       "      \"cached_gb\": " \o PyFloat2(data.system.memory.cached_gb),
       "    },",
       "    \"disk\": {",
       "      \"usage_percent\": " \o PyFloat2(data.system.disk.usage_percent) \o ",",
       "      \"total_gb\": " \o PyFloat2(data.system.disk.total_gb) \o ",",
       "      \"used_gb\": " \o PyFloat2(data.system.disk.used_gb) \o ",",
       "      \"free_gb\": " \o PyFloat2(data.system.disk.free_gb),
       "    },",
       "    \"os\": {",
       "      \"name\": " \o JsonStr(data.system.os.name) \o ",",
       "      \"version\": " \o JsonStr(data.system.os.version) \o ",",
       "      \"release\": " \o JsonStr(data.system.os.release) \o ",",
       "      \"platform\": " \o JsonStr(data.system.os.platform),
       "    }",
       "  },",
       "  \"network\": {",
       "    \"online\": " \o JsonBool(data.network.online) \o ",",
       "    \"host\": " \o JsonStr(data.network.host) \o ",",
       "    \"latency_ms\": " \o JsonLatency(data.network.latency_ms) \o ",",
       "    \"message\": " \o JsonStr(data.network.message),
       "  },",
       "  \"timestamp\": " \o JsonStr(data.timestamp),
       "}" >>

(***************************************************************************)
(* run_ookla_speedtest and format_speedtest_results.  The text of an       *)
(* exception is scanned for substrings and may hold line breaks, so the    *)
(* texts of this part are sequences of lines of one-character strings.     *)
(***************************************************************************)
\* The digits of n >= 0.
RECURSIVE NumChars(_)
NumChars(n) ==
    IF n < 10 THEN <<Digits[n + 1]>> ELSE NumChars(n \div 10) \o <<Digits[(n % 10) + 1]>>

\* str(x) of a float kept to 2 decimals (hundredths, >= 0), as characters.
PyFloat2Chars(h) ==
    LET f == h % 100
    IN  NumChars(h \div 100) \o <<".">>
        \o (IF f % 10 = 0 THEN NumChars(f \div 10)
            ELSE IF f < 10 THEN <<"0">> \o NumChars(f) ELSE NumChars(f))

\* prefix + text, for a text of one or more lines
Prefixed(prefix, text) == <<prefix \o text[1]>> \o Tail(text)

\* `pat in text`, for a pattern that holds no line break
TextContains(text, pat) == \E i \in 1..Len(text) : Contains(text[i], pat)

SpeedOk(download, upload, ping, server) ==
    [kind |-> "ok", download |-> download, upload |-> upload, ping |-> ping,
     server |-> server, error_msg |-> <<>>]
SpeedRaised(exc, error_msg) ==
    [kind |-> exc, download |-> 0, upload |-> 0, ping |-> 0,
     server |-> NoValue, error_msg |-> error_msg]

\* sep-joined fields of a server name, as characters
RECURSIVE JoinChars(_, _)
JoinChars(fields, sep) ==
    IF Len(fields) = 1 THEN fields[1]
    ELSE fields[1] \o sep \o JoinChars(Tail(fields), sep)

ErrDependency ==
    <<<<"s","p","e","e","d","t","e","s","t","-","c","l","i"," ","n","o","t"," ","i","n","s","t","a","l","l","e","d","."," ","R","u","n",":"," ","p","i","p"," ","i","n","s","t","a","l","l"," ","s","p","e","e","d","t","e","s","t","-","c","l","i">>>>
ErrForbidden ==
    <<<<"H","T","T","P"," ","4","0","3"," ","F","o","r","b","i","d","d","e","n"," ","-"," ","O","o","k","l","a"," ","s","e","r","v","e","r","s"," ","b","l","o","c","k","e","d"," ","t","h","e"," ","r","e","q","u","e","s","t","."," ","T","h","i","s"," ","m","a","y"," ","b","e"," ","t","e","m","p","o","r","a","r","y",","," ","p","l","e","a","s","e"," ","t","r","y"," ","a","g","a","i","n"," ","l","a","t","e","r",".">>>>
ErrConnection ==
    <<<<"C","o","n","n","e","c","t","i","o","n"," ","e","r","r","o","r"," ","-"," ","U","n","a","b","l","e"," ","t","o"," ","r","e","a","c","h"," ","O","o","k","l","a"," ","s","e","r","v","e","r","s","."," ","C","h","e","c","k"," ","y","o","u","r"," ","i","n","t","e","r","n","e","t"," ","c","o","n","n","e","c","t","i","o","n",".">>>>

\* The measurement: bits per second to Mbps, rounded to 2 decimals
\* (hundredths); a server name is held as its comma-separated fields.
run_ookla_speedtest(st) ==
    CASE st.kind = "ok" ->
           [success |-> TRUE,
            download_mbps |-> RoundHalfEven(st.download, 10000),
            upload_mbps |-> RoundHalfEven(st.upload, 10000),
            ping_ms |-> RoundHalfEven(st.ping, 10),
            server |-> [name |-> JoinChars(st.server.name, <<",">>),
                        city |-> IF Len(st.server.name) > 1
                                 THEN st.server.name[1]
                                 ELSE JoinChars(st.server.name, <<",">>),
                        sponsor |-> st.server.sponsor,
                        country |-> st.server.country,
                        distance |-> RoundHalfEven(st.server.d, 10),
                        id |-> st.server.id],
            error |-> <<>>]
      [] st.kind = "ImportError" ->
           [success |-> FALSE, error |-> ErrDependency]
      [] OTHER ->
           IF TextContains(st.error_msg, <<"4","0","3">>)
              \/ TextContains(st.error_msg, <<"F","o","r","b","i","d","d","e","n">>)
           THEN [success |-> FALSE, error |-> ErrForbidden]
           ELSE IF TextContains(st.error_msg, <<"H","T","T","P","S","C","o","n","n","e","c","t","i","o","n","P","o","o","l">>)
                   \/ TextContains(st.error_msg, <<"C","o","n","n","e","c","t","i","o","n">>)
           THEN [success |-> FALSE, error |-> ErrConnection]
           ELSE [success |-> FALSE,
                 error |-> Prefixed(<<"S","p","e","e","d","t","e","s","t"," ","f","a","i","l","e","d",":"," ">>, st.error_msg)]

format_speedtest_results(speedtest_info) ==
    IF ~speedtest_info.success
    THEN Prefixed(<<"S","p","e","e","d","t","e","s","t"," ","E","r","r","o","r",":"," ">>, speedtest_info.error)
    ELSE LET server == speedtest_info.server
         \* (the warning sign that opens the disclaimer is written "(!)")
         IN << <<>>,
               <<"=","=","="," ","O","o","k","l","a"," ","S","p","e","e","d","t","e","s","t"," ","R","e","s","u","l","t","s"," ","=","=","=">>,
               <<>>,
               <<"(","!",")"," "," ","D","I","S","C","L","A","I","M","E","R",":"," ","R","e","s","u","l","t","s"," ","a","r","e"," ","e","s","t","i","m","a","t","e","s"," ","b","a","s","e","d"," ","o","n"," ","t","h","e"," ","t","e","s","t"," ","s","e","r","v","e","r"," ","s","e","l","e","c","t","e","d",".">>,
               <<" "," "," ","S","e","r","v","e","r"," ","l","o","c","a","t","i","o","n","/","p","r","o","v","i","d","e","r"," ","m","a","y"," ","n","o","t"," ","r","e","f","l","e","c","t"," ","y","o","u","r"," ","a","c","t","u","a","l"," ","l","o","c","a","t","i","o","n","/","I","S","P",".">>,
               <<>>,
               <<"T","e","s","t"," ","S","e","r","v","e","r",":"," ">> \o server.name,
               <<"S","e","r","v","e","r"," ","P","r","o","v","i","d","e","r",":"," ">> \o server.sponsor,
               <<"S","e","r","v","e","r"," ","L","o","c","a","t","i","o","n",":"," ">> \o server.city \o <<","," ">> \o server.country,
               <<"D","i","s","t","a","n","c","e"," ","t","o"," ","S","e","r","v","e","r",":"," ">> \o PyFloat2Chars(server.distance) \o <<" ","k","m">>,
               <<>>,
               <<"N","e","t","w","o","r","k"," ","P","e","r","f","o","r","m","a","n","c","e",":">>,
               <<" "," ","P","i","n","g",":"," ">> \o PyFloat2Chars(speedtest_info.ping_ms) \o <<" ","m","s">>,
               <<" "," ","D","o","w","n","l","o","a","d"," ","S","p","e","e","d",":"," ">> \o PyFloat2Chars(speedtest_info.download_mbps)
                   \o <<" ","M","b","p","s">>,
               <<" "," ","U","p","l","o","a","d"," ","S","p","e","e","d",":"," ">> \o PyFloat2Chars(speedtest_info.upload_mbps)
                   \o <<" ","M","b","p","s">> >>

\* run_ping: the lines of "\n".join(result_lines).
run_ping(st) ==
    << <<"R","u","n","n","i","n","g"," ","n","e","t","w","o","r","k"," ","s","p","e","e","d"," ","t","e","s","t",".",".",".">>,
       <<"T","h","i","s"," ","m","a","y"," ","t","a","k","e"," ","3","0","-","6","0"," ","s","e","c","o","n","d","s",","," ","p","l","e","a","s","e"," ","w","a","i","t",".",".",".">>,
       <<>>,
       <<"N","o","t","e",":"," ","R","e","s","u","l","t","s"," ","s","h","o","w"," ","t","h","e"," ","t","e","s","t"," ","s","e","r","v","e","r"," ","l","o","c","a","t","i","o","n",","," ","w","h","i","c","h"," ","m","a","y"," ","d","i","f","f","e","r"," ","f","r","o","m"," ","y","o","u","r"," ","a","c","t","u","a","l"," ","l","o","c","a","t","i","o","n",".">>,
       <<>> >>
    \o format_speedtest_results(run_ookla_speedtest(st))

\* What the speedtest client can do.
SampleServer ==
    [name |-> <<<<"F","r","a","n","k","f","u","r","t">>, <<" ","H","e","s","s","e">>>>, sponsor |-> <<"A","C","M","E"," ","N","e","t">>,
     country |-> <<"G","e","r","m","a","n","y">>, d |-> 12342, id |-> 4711]

SpeedOutcomes ==
    { SpeedOk(93456789, 11200000, 18342, SampleServer),
      SpeedRaised("ImportError", <<<<"N","o"," ","m","o","d","u","l","e"," ","n","a","m","e","d"," ","'","s","p","e","e","d","t","e","s","t","'">>>>),
      SpeedRaised("HTTPError", <<<<"H","T","T","P"," ","E","r","r","o","r"," ","4","0","3",":"," ","F","o","r","b","i","d","d","e","n">>>>),
      SpeedRaised("ConfigRetrievalError", <<<<"<","u","r","l","o","p","e","n"," ","e","r","r","o","r"," ","[","E","r","r","n","o"," ","1","1","1","]"," ","C","o","n","n","e","c","t","i","o","n"," ","r","e","f","u","s","e","d",">">>>>),
      SpeedRaised("SpeedtestException", <<<<"U","n","a","b","l","e"," ","t","o"," ","c","o","n","n","e","c","t"," ","t","o"," ","s","e","r","v","e","r","s"," ","t","o"," ","t","e","s","t"," ","l","a","t","e","n","c","y",".">>>>),
      SpeedRaised("Exception", <<<<>>>>),
      SpeedRaised("NoMatchedServers", <<<<"N","o"," ","m","a","t","c","h","e","d"," ","s","e","r","v","e","r","s">>, <<"t","r","y"," ","a","g","a","i","n"," ","l","a","t","e","r">>>>),
      SpeedRaised("Exception", <<<<"u","p","s","t","r","e","a","m"," ","s","a","i","d",":">>, <<"S","p","e","e","d","t","e","s","t"," ","E","r","r","o","r",":"," ","r","e","t","r","y">>>>) }

(***************************************************************************)
(* execute_command: the parse of the command line.                         *)
(***************************************************************************)
IsSpace(c) == c = " " \/ c = "\t"

\* The index of the first character of chars at or after i that is no
\* white space (Len + 1 when there is none).
RECURSIVE SkipSpace(_, _)
SkipSpace(chars, i) ==
    IF i <= Len(chars) /\ IsSpace(chars[i]) THEN SkipSpace(chars, i + 1) ELSE i

\* The index of the last character of the word that starts at i.
RECURSIVE WordEnd(_, _)
WordEnd(chars, i) ==
    IF i <= Len(chars) /\ ~IsSpace(chars[i]) THEN WordEnd(chars, i + 1) ELSE i - 1

\* command.strip() is empty
IsBlank(command) == SkipSpace(command, 1) > Len(command)

\* The characters joined into a string.
RECURSIVE Str(_)
Str(chars) == IF chars = <<>> THEN "" ELSE chars[1] \o Str(Tail(chars))

\* parts[0].lower(), parts = command.split()
ParseCmd(command) ==
    LET s == SkipSpace(command, 1)
        word == SubSeq(command, s, WordEnd(command, s))
    IN  Str([i \in 1..Len(word) |-> LowerChar(word[i])])

get_help_text ==
    << "SysTrack Terminal Commands",
       "========================",
       "help, ?          - Show this help message",
       "summary          - Generate summary system report",
       "detailed         - Generate detailed system report",
       "ping             - Run network speed test (Ookla Speedtest)",
       "                  Takes 30-60 seconds, shows download/upload speeds",
       "clear, cls       - Clear the terminal screen",
       "",
       "Examples:",
       "  summary",
       "  detailed",
       "  ping",
       "  clear",
       "" >>

\* The command lines a web session sends.
Commands ==
    { <<"h","e","l","p">>, <<"?">>, <<"s","u","m","m","a","r","y">>, <<" ","D","e","t","a","i","l","e","d"," ">>, <<"p","i","n","g">>, <<"c","l","e","a","r">>,
      <<"C","L","S">>, <<"f","r","o","b","n","i","c","a","t","e">>, <<"S","u","m","m","a","r","i","z","e"," ","n","o","w">>, <<>>, <<" "," ">> }

(***************************************************************************)
(* The report store: the files of the reports directory.  An entry holds   *)
(* the file's lines (data) and two history fields: the request that wrote  *)
(* to it last (writer) and the content of the last save of it that ended   *)
(* without an error (saved: no or one content).                            *)
(***************************************************************************)
EmptyStore == [n \in {} |-> NoValue]

Put(store, name, entry) ==
    [n \in (DOMAIN store) \cup {name} |-> IF n = name THEN entry ELSE store[n]]

\* open(filepath, 'w'): the file is created, or cut to length 0.
Truncated(store, name) ==
    Put(store, name,
        IF name \in DOMAIN store
        THEN [store[name] EXCEPT !.data = <<>>]
        ELSE [data |-> <<>>, writer |-> 0, saved |-> <<>>])

\* write(fd, lines) at offset 0 of a descriptor opened with 'w': what the
\* file holds beyond the written length stays.
Overlay(old, lines) == lines \o SubSeq(old, Len(lines) + 1, Len(old))

(***************************************************************************)
(* The requests: a command line sent to the web dispatcher, or a run of    *)
(* the CLI.                                                                *)
(***************************************************************************)
WebRequest(command) ==
    [front |-> "web", command |-> command, mode |-> "", json |-> FALSE,
     host |-> "google.com"]
CliRequest(mode, json, host) ==
    [front |-> "cli", command |-> <<>>, mode |-> mode, json |-> json, host |-> host]

Requests ==
    {WebRequest(c) : c \in Commands}
    \cup {CliRequest("summary", FALSE, "google.com"),
          CliRequest("detailed", FALSE, "10.0.0.9"),
          CliRequest("summary", TRUE, "google.com")}

\* What the host answers while a report is generated.
PipelineReadings ==
    {Reading(1250, 6130, 8000, 4000, 6000),
     FailedReading("[Errno 13] Permission denied: '/proc/stat'")}

PipelineRuns ==
    {Completed(0, OutLinux), Completed(0, OutNoToken), Completed(1, OutNoToken),
     RunRaised("TimeoutExpired", ""),
     RunRaised("FileNotFoundError", "[Errno 2] No such file or directory: 'ping'"),
     RunRaised("OSError", "[Errno 12] Cannot allocate memory")}

MkdirError == "[Errno 13] Permission denied: 'reports'"
OpenError == "[Errno 13] Permission denied"
WriteError == "[Errno 28] No space left on device"

\* A response: for the web, the HTTP status, the output lines and the error
\* (no line for null); for the CLI, the exit status, stdout and stderr.
Response(code, out, err) == [code |-> code, out |-> out, err |-> err]

NoFault == [stage |-> "", detail |-> ""]
Fault(stage, detail) == [stage |-> stage, detail |-> detail]

\* The frame of one request.  trace (the components invoked), fault (what
\* the environment made fail) and store0 (the reports directory as the
\* request found it) are history fields.
IdleProc ==
    [pc |-> "idle", req |-> NoValue, mode |-> "", stdout |-> <<>>,
     store0 |-> NoValue, run |-> NoValue,
     system_info |-> NoValue, network_info |-> NoValue, report |-> NoValue,
     path |-> "", response |-> NoValue, trace |-> <<>>, fault |-> NoFault]

\* The branch execute_command takes for cmd.
RouteUnknownAsHelp(cmd) ==
    CASE cmd = "help" \/ cmd = "?" -> "help"
      [] cmd = "summary" -> "summary"
      [] cmd = "detailed" -> "detailed"
      [] cmd = "ping" -> "ping"
      [] cmd = "clear" \/ cmd = "cls" -> "clear"
      [] OTHER -> "help"

Route(cmd) ==
    CASE cmd = "help" \/ cmd = "?" -> "help"
      [] cmd = "summary" -> "summary"
      [] cmd = "detailed" -> "detailed"
      [] cmd = "ping" -> "ping"
      [] cmd = "clear" \/ cmd = "cls" -> "clear"
      [] OTHER -> "unknown"

Done(frame, response) == [frame EXCEPT !.pc = "done", !.response = response]

\* An exception reaches the handler of the request: run_summary_report and
\* run_detailed_report return it as the output; main prints it to stderr
\* and exits 1.
Abort(frame, fault, msg) ==
    Done([frame EXCEPT !.fault = fault],
         IF frame.req.front = "web"
         THEN Response(200, <<"Error generating report: " \o msg>>, <<>>)
         ELSE Response(1, frame.stdout, <<"", "Error: " \o msg>>))

\* execute_command up to the call of a verb's function, and main up to the
\* collection.
Start(p, r) ==
    /\ proc[p].pc \in {"idle", "done"}
    /\ nreq < MaxRequests
    /\ nreq' = nreq + 1
    /\ LET frame == [IdleProc EXCEPT !.req = r,
                       !.store0 = [files |-> files, dir_exists |-> dir_exists]]
           route == Route(ParseCmd(r.command))
       IN  proc' = [proc EXCEPT ![p] =
             IF r.front = "cli"
             THEN [frame EXCEPT !.pc = "collect", !.mode = r.mode,
                                !.stdout = <<"Collecting system information...">>]
             ELSE IF IsBlank(r.command)
             THEN Done(frame, Response(400, <<"">>, <<"No command provided">>))
             ELSE CASE route = "help" -> Done(frame, Response(200, get_help_text, <<>>))
                    [] route \in {"summary", "detailed"} ->
                         [frame EXCEPT !.pc = "collect", !.mode = route]
                    [] route = "ping" -> [frame EXCEPT !.pc = "speedtest"]
                    [] route = "clear" ->
                         Done(frame, Response(200, <<"CLEAR_SCREEN">>, <<>>))
                    [] OTHER ->
                         Done(frame, Response(200,
                              <<"Unknown command: " \o ParseCmd(r.command),
                                "Type 'help' for available commands.">>, <<>>))]
    /\ UNCHANGED <<files, dir_exists, clock, probeVars, summaryVars, collectVars, jsonVars>>

\* A collection whose failure is swallowed: the generation goes on with an
\* all-zero snapshot.
CollectSwallowsFailure(p, reading) ==
    /\ proc[p].pc = "collect"
    /\ LET frame == [proc[p] EXCEPT !.trace = Append(@, "collect")]
           r == get_system_info(reading)
       IN  proc' = [proc EXCEPT ![p] =
             [frame EXCEPT !.pc = "probe",
                !.fault = IF r.raised THEN Fault("collect", reading.error) ELSE NoFault,
                !.system_info = IF r.raised
                                THEN get_system_info(Reading(0, 0, 0, 0, 0)).value
                                ELSE r.value,
                !.stdout = IF frame.req.front = "cli"
                           THEN Append(@, "Checking network connectivity...") ELSE @]]
    /\ UNCHANGED <<files, dir_exists, clock, nreq, probeVars, summaryVars, collectVars, jsonVars>>

\* system_info = get_system_info()
Collect(p, reading) ==
    /\ proc[p].pc = "collect"
    /\ LET frame == [proc[p] EXCEPT !.trace = Append(@, "collect")]
           r == get_system_info(reading)
       IN  proc' = [proc EXCEPT ![p] =
             IF r.raised
             THEN Abort(frame, Fault("collect", reading.error), r.error)
             ELSE [frame EXCEPT !.pc = "probe", !.system_info = r.value,
                     !.stdout = IF frame.req.front = "cli"
                                THEN Append(@, "Checking network connectivity...")
                                ELSE @]]
    /\ UNCHANGED <<files, dir_exists, clock, nreq, probeVars, summaryVars, collectVars, jsonVars>>

\* The probe treated as fatal whenever it is offline.
ProbeOfflineAborts(p, run) ==
    /\ proc[p].pc = "probe"
    /\ LET frame == [proc[p] EXCEPT !.trace = Append(@, "probe"), !.run = run]
           r == ping_host(frame.req.host, run)
       IN  proc' = [proc EXCEPT ![p] =
             IF r.raised \/ ~r.value.online
             THEN Abort(frame, Fault("probe", run.kind), "network offline")
             ELSE [frame EXCEPT !.pc = "format", !.network_info = r.value]]
    /\ UNCHANGED <<files, dir_exists, clock, nreq, probeVars, summaryVars, collectVars, jsonVars>>

\* network_info = ping_host() (the web), ping_host(host=args.host) (the CLI)
Probe(p, run) ==
    /\ proc[p].pc = "probe"
    /\ LET frame == [proc[p] EXCEPT !.trace = Append(@, "probe"), !.run = run]
           r == ping_host(frame.req.host, run)
       IN  proc' = [proc EXCEPT ![p] =
             IF r.raised
             THEN Abort(frame, Fault("probe", run.kind), r.error)
             ELSE [frame EXCEPT !.pc = "format", !.network_info = r.value]]
    /\ UNCHANGED <<files, dir_exists, clock, nreq, probeVars, summaryVars, collectVars, jsonVars>>

\* report = format_report(...); with --json, the report data is built
\* instead (generate_date_header reads the clock in both).
Format(p) ==
    /\ proc[p].pc = "format"
    /\ LET frame == proc[p]
       IN  proc' = [proc EXCEPT ![p] =
             IF frame.req.json
             THEN [frame EXCEPT !.pc = "save",
                     !.report = [date |-> generate_date_header(clock),
                                 system |-> frame.system_info,
                                 network |-> frame.network_info]]
             ELSE [frame EXCEPT !.pc = "save", !.trace = Append(@, "format"),
                     !.report = format_report(frame.system_info, frame.network_info,
                                              frame.mode, clock)]]
    /\ UNCHANGED <<files, dir_exists, clock, nreq, probeVars, summaryVars, collectVars, jsonVars>>

SaveName(frame) == IF frame.req.json THEN "JSON" ELSE "text"

\* save_text_report and save_json_report up to the open: the directory is
\* ensured, the file name is made of the clock's minute and, for JSON, the
\* timestamp is put into the data.
SaveBegin(p) ==
    /\ proc[p].pc = "save"
    /\ dir_exists' = TRUE
    /\ LET frame == proc[p]
           ext == IF frame.req.json THEN ".json" ELSE ".txt"
       IN  proc' = [proc EXCEPT ![p] =
             [frame EXCEPT !.pc = "open", !.trace = Append(@, "save"),
                !.path = "reports/sysreport_" \o generate_timestamp(clock) \o ext,
                !.report = IF frame.req.json
                           THEN [date |-> @.date, system |-> @.system,
                                 network |-> @.network,
                                 timestamp |-> isoformat(clock)]
                           ELSE @]]
    /\ UNCHANGED <<files, clock, nreq, probeVars, summaryVars, collectVars, jsonVars>>

\* except Exception as e: raise RuntimeError(f"Failed to save ... report: ...")
SaveFailed(frame, stage, err) ==
    Abort(frame, Fault(stage, err),
          "Failed to save " \o SaveName(frame) \o " report: " \o err)

\* mkdir fails (the directory cannot be created).
SaveBeginFails(p) ==
    /\ proc[p].pc = "save"
    /\ ~dir_exists
    /\ proc' = [proc EXCEPT ![p] =
          SaveFailed([proc[p] EXCEPT !.trace = Append(@, "save")], "mkdir", MkdirError)]
    /\ UNCHANGED <<files, dir_exists, clock, nreq, probeVars, summaryVars, collectVars, jsonVars>>

\* with open(filepath, 'w', encoding='utf-8') as f
SaveOpen(p) ==
    /\ proc[p].pc = "open"
    /\ files' = Truncated(files, proc[p].path)
    /\ proc' = [proc EXCEPT ![p].pc = "write"]
    /\ UNCHANGED <<dir_exists, clock, nreq, probeVars, summaryVars, collectVars, jsonVars>>

SaveOpenFails(p) ==
    /\ proc[p].pc = "open"
    /\ proc' = [proc EXCEPT ![p] = SaveFailed(proc[p], "open", OpenError)]
    /\ UNCHANGED <<files, dir_exists, clock, nreq, probeVars, summaryVars, collectVars, jsonVars>>

\* The lines a save writes.
Content(frame) == IF frame.req.json THEN JsonDump(frame.report) ELSE frame.report

\* What the caller gets after the save: the web verb returns the report and
\* the path; main prints them (the path alone with --json) and exits 0.
Saved(frame) ==
    IF frame.req.front = "web"
    THEN Done(frame, Response(200,
              frame.report \o <<"", "Report saved: " \o frame.path>>, <<>>))
    ELSE Done(frame, Response(0,
              frame.stdout
              \o (IF frame.req.json THEN <<>> ELSE <<"">> \o frame.report)
              \o <<"", "Report saved: " \o frame.path>>, <<>>))

\* f.write(content) / json.dump(data, f), flushed as the file is closed:
\* the buffered text goes out in one write at the descriptor's offset 0.
SaveWrite(p) ==
    /\ proc[p].pc = "write"
    /\ LET frame == proc[p]
           lines == Content(frame)
       IN  /\ files' = Put(files, frame.path,
                           [data |-> Overlay(files[frame.path].data, lines),
                            writer |-> p, saved |-> <<lines>>])
           /\ proc' = [proc EXCEPT ![p] = Saved(frame)]
    /\ UNCHANGED <<dir_exists, clock, nreq, probeVars, summaryVars, collectVars, jsonVars>>

\* The write fails (the disk is full) after k of the lines went out.
SaveWriteFails(p, k) ==
    /\ proc[p].pc = "write"
    /\ LET frame == proc[p]
           lines == Content(frame)
       IN  /\ k < Len(lines)
           /\ files' = Put(files, frame.path,
                           [files[frame.path] EXCEPT
                              !.data = Overlay(@, SubSeq(lines, 1, k)),
                              !.writer = p])
           /\ proc' = [proc EXCEPT ![p] = SaveFailed(frame, "write", WriteError)]
    /\ UNCHANGED <<dir_exists, clock, nreq, probeVars, summaryVars, collectVars, jsonVars>>

\* run_ping: the measurement and its rendering.
Speedtest(p, st) ==
    /\ proc[p].pc = "speedtest"
    /\ proc' = [proc EXCEPT ![p] =
          Done([proc[p] EXCEPT !.trace = Append(@, "speedtest"),
                               !.fault = IF st.kind = "ok" THEN NoFault
                                         ELSE Fault("speedtest", st.kind)],
               Response(200, run_ping(st), <<>>))]
    /\ UNCHANGED <<files, dir_exists, clock, nreq, probeVars, summaryVars, collectVars, jsonVars>>

\* A minute passes.
Tick ==
    /\ clock < MaxTicks
    /\ clock' = clock + 1
    /\ UNCHANGED <<proc, files, dir_exists, nreq, probeVars, summaryVars, collectVars, jsonVars>>

(***************************************************************************)
(* Spec: one client (a web session or a shell) whose requests follow one   *)
(* another, on a host whose queries, ping process, speedtest client and    *)
(* file system may fail.                                                   *)
(***************************************************************************)
Main == 1

\* The numbers of lines a failing write may have put out before it failed.
PartialWrites == {0, 1, 9}

Init ==
    /\ ProbeIdle /\ SummaryIdle /\ CollectIdle /\ JsonIdle
    /\ proc = [p \in Procs |-> IdleProc]
    /\ files = EmptyStore
    /\ dir_exists = FALSE
    /\ clock = 0
    /\ nreq = 0

Next ==
    \/ Tick
    \/ \E r \in Requests : Start(Main, r)
    \/ \E reading \in PipelineReadings : Collect(Main, reading)
    \/ \E run \in PipelineRuns : Probe(Main, run)
    \/ Format(Main)
    \/ SaveBegin(Main)
    \/ SaveBeginFails(Main)
    \/ SaveOpen(Main)
    \/ SaveOpenFails(Main)
    \/ SaveWrite(Main)
    \/ \E k \in PartialWrites : SaveWriteFails(Main, k)
    \/ \E st \in SpeedOutcomes : Speedtest(Main, st)

Spec == Init /\ [][Next]_vars

(***************************************************************************)
(* SpecRace: two report generations whose reports are formatted, saving    *)
(* at the same time.                                                       *)
(***************************************************************************)
FormattedFrames ==
    { [IdleProc EXCEPT !.pc = "save", !.mode = mode,
         !.req = WebRequest(IF mode = "summary" THEN <<"s","u","m","m","a","r","y">>
                            ELSE <<"d","e","t","a","i","l","e","d">>),
         !.trace = <<"collect", "probe", "format">>,
         !.system_info = get_system_info(reading).value,
         !.network_info = ping_host("google.com", run).value,
         !.report = format_report(get_system_info(reading).value,
                                  ping_host("google.com", run).value, mode, 0)] :
        mode \in {"summary", "detailed"},
        reading \in {r \in PipelineReadings : r.error = ""},
        run \in {r \in PipelineRuns : r.kind # "FileNotFoundError"} }

InitRace ==
    /\ ProbeIdle /\ SummaryIdle /\ CollectIdle /\ JsonIdle
    /\ proc \in [Procs -> FormattedFrames]
    /\ files = EmptyStore
    /\ dir_exists \in BOOLEAN
    /\ clock = 0
    /\ nreq = Cardinality(Procs)

NextRace ==
    \/ Tick
    \/ \E p \in Procs : SaveBegin(p) \/ SaveOpen(p) \/ SaveWrite(p)

SpecRace == InitRace /\ [][NextRace]_vars

(***************************************************************************)
(* The JSON round trip: json.dump(data, f, indent=2, ensure_ascii=False)   *)
(* as the characters written, and json.load of those characters.  A Python *)
(* value is held with its type: a dict is the sequence of its items in     *)
(* insertion order, a str is its characters, a float is in thousandths.    *)
(***************************************************************************)
PyStr(c) == [t |-> "str", v |-> c]
PyInt(n) == [t |-> "int", v |-> n]
PyFloat(v) == [t |-> "float", v |-> v]
PyBool(b) == [t |-> "bool", v |-> b]
PyNone == [t |-> "none", v |-> 0]
PyDict(items) == [t |-> "dict", v |-> items]

Keys(d) == {d.v[i][1] : i \in 1..Len(d.v)}

\* d[k]; with a key given twice the last item is the one the dict holds.
DictGet(d, k) ==
    d.v[CHOOSE i \in 1..Len(d.v) :
          d.v[i][1] = k /\ \A j \in (i + 1)..Len(d.v) : d.v[j][1] # k][2]

\* a == b of Python: an int and a float of the same value are equal, dicts
\* are equal when they hold the same keys with equal values.
RECURSIVE PyEq(_, _)
PyEq(a, b) ==
    IF a.t \in {"int", "float"} /\ b.t \in {"int", "float"}
    THEN (IF a.t = "int" THEN 1000 * a.v ELSE a.v)
         = (IF b.t = "int" THEN 1000 * b.v ELSE b.v)
    ELSE IF a.t # b.t THEN FALSE
    ELSE IF a.t = "dict"
    THEN /\ Keys(a) = Keys(b)
         /\ \A k \in Keys(a) : PyEq(DictGet(a, k), DictGet(b, k))
    ELSE a.v = b.v

\* float.__repr__ of a float with at most 3 decimals: sign, digits, point,
\* the fraction without trailing zeros but with one digit at least.
FloatChars(v) ==
    LET a == IF v < 0 THEN 0 - v ELSE v
        f == a % 1000
    IN  (IF v < 0 THEN <<"-">> ELSE <<>>) \o NumChars(a \div 1000) \o <<".">>
        \o (IF f % 100 = 0 THEN NumChars(f \div 100)
            ELSE IF f % 10 = 0 THEN <<Digits[(f \div 100) + 1], Digits[((f \div 10) % 10) + 1]>>
            ELSE <<Digits[(f \div 100) + 1], Digits[((f \div 10) % 10) + 1],
                   Digits[(f % 10) + 1]>>)

IntChars(n) == IF n < 0 THEN <<"-">> \o NumChars(0 - n) ELSE NumChars(n)

\* An encoder that leaves the backslash as it is.
EscapeCharQuoteOnly(c) ==
    IF c = "\"" THEN <<"\\", "\"">>
    ELSE IF c = "\n" THEN <<"\\", "n">>
    ELSE IF c = "\t" THEN <<"\\", "t">>
    ELSE <<c>>

\* py_encode_basestring (ensure_ascii=False): the quote and the backslash
\* get a backslash, line feed and tab are written \n and \t.
EscapeChar(c) ==
    IF c = "\"" THEN <<"\\", "\"">>
    ELSE IF c = "\\" THEN <<"\\", "\\">>
    ELSE IF c = "\n" THEN <<"\\", "n">>
    ELSE IF c = "\t" THEN <<"\\", "t">>
    ELSE <<c>>

RECURSIVE EscapeRange(_, _, _)
EscapeRange(s, lo, hi) ==
    IF lo > hi THEN <<>>
    ELSE IF lo = hi THEN EscapeChar(s[lo])
    ELSE LET mid == (lo + hi) \div 2
         IN  EscapeRange(s, lo, mid) \o EscapeRange(s, mid + 1, hi)

JsonString(s) == <<"\"">> \o EscapeRange(s, 1, Len(s)) \o <<"\"">>

Spaces(n) == [i \in 1..n |-> " "]

\* _make_iterencode with indent=2: each item of a dict on a line of its
\* own, indented by its depth; "," between items, ": " after a key.
RECURSIVE json_dumps(_, _)
RECURSIVE DumpItems(_, _, _)
DumpItems(items, i, level) ==
    <<"\n">> \o Spaces(2 * level) \o JsonString(items[i][1]) \o <<":", " ">>
    \o json_dumps(items[i][2], level)
    \o (IF i = Len(items) THEN <<>>
        ELSE <<",">> \o DumpItems(items, i + 1, level))

json_dumps(o, level) ==
    CASE o.t = "str" -> JsonString(o.v)
      [] o.t = "int" -> IntChars(o.v)
      [] o.t = "float" -> FloatChars(o.v)
      [] o.t = "bool" -> IF o.v THEN <<"t","r","u","e">> ELSE <<"f","a","l","s","e">>
      [] o.t = "none" -> <<"n","u","l","l">>
      [] o.t = "dict" ->
           IF o.v = <<>> THEN <<"{", "}">>
           ELSE <<"{">> \o DumpItems(o.v, 1, level + 1)
                \o <<"\n">> \o Spaces(2 * level) \o <<"}">>

\* json.load.  A parse answers [ok, val, pos]: the value read and the
\* position after it, or ok = FALSE where the decoder raises.
Parsed(val, pos) == [ok |-> TRUE, val |-> val, pos |-> pos]
ParseError == [ok |-> FALSE, val |-> PyNone, pos |-> 0]

JsonSpace == {" ", "\n", "\t", "\r"}

RECURSIVE SkipJsonSpace(_, _)
SkipJsonSpace(s, i) ==
    IF i <= Len(s) /\ s[i] \in JsonSpace THEN SkipJsonSpace(s, i + 1) ELSE i

\* The number of backslashes that stand in a row just before s[j].
RECURSIVE BackslashRun(_, _)
BackslashRun(s, j) ==
    IF j > 1 /\ s[j - 1] = "\\" THEN 1 + BackslashRun(s, j - 1) ELSE 0

\* The closing quote of the string whose opening quote is s[i]: the first
\* quote after it that no backslash escapes; 0 when there is none.
StringEnd(s, i) ==
    LET closing == {j \in (i + 1)..Len(s) :
                      s[j] = "\"" /\ (BackslashRun(SubSeq(s, i + 1, j), j - i) % 2) = 0}
    IN  IF closing = {} THEN 0
        ELSE CHOOSE j \in closing : \A k \in closing : j <= k

UnescapeChar(c) ==
    IF c = "n" THEN "\n" ELSE IF c = "t" THEN "\t" ELSE c

\* py_scanstring on the characters between the quotes: a backslash that
\* begins an escape is dropped and the character after it decoded.
Unescape(c) ==
    LET intro(k) == k >= 1 /\ c[k] = "\\" /\ (BackslashRun(c, k) % 2) = 0
        kept == SelectSeq([k \in 1..Len(c) |-> k], LAMBDA k : ~intro(k))
    IN  [m \in 1..Len(kept) |->
           IF intro(kept[m] - 1) THEN UnescapeChar(c[kept[m]]) ELSE c[kept[m]]]

ParseString(s, i) ==
    LET e == StringEnd(s, i)
    IN  IF i > Len(s) \/ s[i] # "\"" \/ e = 0 THEN ParseError
        ELSE Parsed(PyStr(Unescape(SubSeq(s, i + 1, e - 1))), e + 1)

\* A number: -?digits(.digits)?; with a fraction it is a float, without
\* one an int.
ParseNumber(s, i) ==
    LET neg == s[i] = "-"
        a == IF neg THEN i + 1 ELSE i
        b == DigitsEnd(s, a)
        frac == b + 1 <= Len(s) /\ s[b + 1] = "." /\ DigitsEnd(s, b + 2) >= b + 2
        c == IF frac THEN DigitsEnd(s, b + 2) ELSE b
        whole == DigitsValue(s, a, b)
        places == c - (b + 1)
        thousandths ==
            whole * 1000
            + (IF places = 1 THEN 100 * DigitsValue(s, b + 2, c)
               ELSE IF places = 2 THEN 10 * DigitsValue(s, b + 2, c)
               ELSE DigitsValue(s, b + 2, b + 4))
    IN  IF b < a THEN ParseError
        ELSE IF frac
        THEN Parsed(PyFloat(IF neg THEN 0 - thousandths ELSE thousandths), c + 1)
        ELSE Parsed(PyInt(IF neg THEN 0 - whole ELSE whole), b + 1)

RECURSIVE ParseValue(_, _)
RECURSIVE ParseItems(_, _, _)
\* The items of an object from the key at s[i] on, after the items acc.
ParseItems(s, i, acc) ==
    LET key == ParseString(s, i)
        colon == IF key.ok THEN SkipJsonSpace(s, key.pos) ELSE 0
        val == IF key.ok /\ colon <= Len(s) /\ s[colon] = ":"
               THEN ParseValue(s, SkipJsonSpace(s, colon + 1)) ELSE ParseError
        next == IF val.ok THEN SkipJsonSpace(s, val.pos) ELSE 0
        items == Append(acc, <<key.val.v, val.val>>)
    IN  IF ~val.ok \/ next > Len(s) THEN ParseError
        ELSE IF s[next] = "}" THEN Parsed(PyDict(items), next + 1)
        ELSE IF s[next] = "," THEN ParseItems(s, SkipJsonSpace(s, next + 1), items)
        ELSE ParseError

ParseValue(s, i) ==
    IF i > Len(s) THEN ParseError
    ELSE IF s[i] = "{"
    THEN LET j == SkipJsonSpace(s, i + 1)
         IN  IF j <= Len(s) /\ s[j] = "}" THEN Parsed(PyDict(<<>>), j + 1)
             ELSE ParseItems(s, j, <<>>)
    ELSE IF s[i] = "\"" THEN ParseString(s, i)
    ELSE IF StartsAt(s, i, <<"t","r","u","e">>) THEN Parsed(PyBool(TRUE), i + 4)
    ELSE IF StartsAt(s, i, <<"f","a","l","s","e">>) THEN Parsed(PyBool(FALSE), i + 5)
    ELSE IF StartsAt(s, i, <<"n","u","l","l">>) THEN Parsed(PyNone, i + 4)
    ELSE ParseNumber(s, i)

\* json.load(f): one value, then nothing but white space.
json_loads(s) ==
    LET r == ParseValue(s, SkipJsonSpace(s, 1))
    IN  IF r.ok /\ SkipJsonSpace(s, r.pos) = Len(s) + 1 THEN r ELSE ParseError

\* data[k] = v
DictSet(d, k, v) ==
    IF k \in Keys(d)
    THEN PyDict([i \in 1..Len(d.v) |-> IF d.v[i][1] = k THEN <<k, v>> ELSE d.v[i]])
    ELSE PyDict(Append(d.v, <<k, v>>))

\* datetime.now().isoformat() as characters, to the minute the clock keeps.
TwoDigits(n) == <<Digits[(n \div 10) + 1], Digits[(n % 10) + 1]>>
IsoTimestamp(now) ==
    <<"2","0","2","4","-","0","3","-">> \o TwoDigits(DayOfMonth(now)) \o <<"T">>
    \o TwoDigits(MinuteOfDay(now) \div 60) \o <<":">>
    \o TwoDigits(MinuteOfDay(now) % 60) \o <<":", "0", "0">>

\* The snapshot of get_system_info as a Python dict; `os` gives the four
\* strings of the platform as characters.
SnapshotValue(info, os) ==
    PyDict(<<
      <<<<"c","p","u">>, PyDict(<<
          <<<<"u","s","a","g","e","_","p","e","r","c","e","n","t">>, PyFloat(10 * info.cpu.usage_percent)>>,
          <<<<"c","o","r","e","_","c","o","u","n","t">>, PyInt(info.cpu.core_count)>> >>)>>,
      <<<<"m","e","m","o","r","y">>, PyDict(<<
          <<<<"u","s","a","g","e","_","p","e","r","c","e","n","t">>, PyFloat(10 * info.memory.usage_percent)>>,
          <<<<"t","o","t","a","l","_","g","b">>, PyFloat(10 * info.memory.total_gb)>>,
          <<<<"u","s","e","d","_","g","b">>, PyFloat(10 * info.memory.used_gb)>>,
          <<<<"f","r","e","e","_","g","b">>, PyFloat(10 * info.memory.free_gb)>>,
          <<<<"a","v","a","i","l","a","b","l","e","_","g","b">>, PyFloat(10 * info.memory.available_gb)>>,
          <<<<"c","a","c","h","e","d","_","g","b">>, PyFloat(10 * info.memory.cached_gb)>> >>)>>,
      <<<<"d","i","s","k">>, PyDict(<<
          <<<<"u","s","a","g","e","_","p","e","r","c","e","n","t">>, PyFloat(10 * info.disk.usage_percent)>>,
          <<<<"t","o","t","a","l","_","g","b">>, PyFloat(10 * info.disk.total_gb)>>,
          <<<<"u","s","e","d","_","g","b">>, PyFloat(10 * info.disk.used_gb)>>,
          <<<<"f","r","e","e","_","g","b">>, PyFloat(10 * info.disk.free_gb)>> >>)>>,
      <<<<"o","s">>, PyDict(<<
          <<<<"n","a","m","e">>, PyStr(os[1])>>,
          <<<<"v","e","r","s","i","o","n">>, PyStr(os[2])>>,
          <<<<"r","e","l","e","a","s","e">>, PyStr(os[3])>>,
          <<<<"p","l","a","t","f","o","r","m">>, PyStr(os[4])>> >>)>> >>)

\* The result of ping_host as a Python dict.
NetworkValue(online, host, latency_ms, message) ==
    PyDict(<<
      <<<<"o","n","l","i","n","e">>, PyBool(online)>>,
      <<<<"h","o","s","t">>, PyStr(host)>>,
      <<<<"l","a","t","e","n","c","y","_","m","s">>, IF latency_ms = None THEN PyNone ELSE PyFloat(latency_ms)>>,
      <<<<"m","e","s","s","a","g","e">>, PyStr(message)>> >>)

\* report_data of main
ReportData(date, system, network) ==
    PyDict(<< <<<<"d","a","t","e">>, PyStr(date)>>,
              <<<<"s","y","s","t","e","m">>, system>>,
              <<<<"n","e","t","w","o","r","k">>, network>> >>)

TimestampKey == <<"t","i","m","e","s","t","a","m","p">>
ReportKeys == {<<"d","a","t","e">>, <<"s","y","s","t","e","m">>, <<"n","e","t","w","o","r","k">>}

\* Inputs of the round trip.  The strings hold what the encoder escapes
\* (quote, backslash, line feed, tab) and text that looks like JSON.
RtReadings ==
    {Reading(1250, 6130, 8000, 4000, 6000),
     Reading(0, 10000, 0, 6000, 4000),
     Reading(9990, 5, 7999, 3, 8)}
RtPlatforms ==
    {<<<<"L","i","n","u","x">>, <<"#","1"," ","S","M","P"," ","P","R","E","E","M","P","T","_","D","Y","N","A","M","I","C">>, <<"6",".","1",".","0">>, <<"L","i","n","u","x","-","6",".","1",".","0","-","x","8","6","_","6","4">>>>,
     <<<<"W","i","n","d","o","w","s">>, <<"1","0",".","0",".","1","9","0","4","5">>, <<"1","0">>, <<"C",":","\\","P","r","o","g","r","a","m"," ","F","i","l","e","s","\\","\"","W","i","n","\"","	","1","0">>>>}
RtHosts == {<<"g","o","o","g","l","e",".","c","o","m">>, <<"e","x","\"","a","m","\\","p","l","e">>, <<>>}
RtLatencies == {None, 0, 42, 43200}
RtMessages ==
    {<<"O","n","l","i","n","e"," ","(","P","i","n","g"," ","g","o","o","g","l","e",".","c","o","m",":"," ","4","3","m","s",")">>,
     <<"O","f","f","l","i","n","e"," ","(","E","r","r","o","r",":"," ","[","E","r","r","n","o"," ","2","]"," ","\"","x","\\","\\","y","\"","\n",")">>,
     <<"{","\"","a","\"",":"," ","1",","," ","\"","b","\"",":"," ","n","u","l","l","}","\\">>}
RtReports ==
    {ReportData(<<"2","0","2","4","-","0","3","-","0","5">>,
                SnapshotValue(get_system_info(reading).value, os),
                NetworkValue(online, host, latency, message)) :
        reading \in RtReadings, os \in RtPlatforms, online \in BOOLEAN,
        host \in RtHosts, latency \in RtLatencies, message \in RtMessages}

(***************************************************************************)
(* SpecRoundTrip: save_json_report writes a report data object, then the   *)
(* file is loaded again.                                                   *)
(***************************************************************************)
InitRoundTrip ==
    /\ ProbeIdle /\ SummaryIdle /\ PipeIdle /\ CollectIdle
    /\ rt_pc = "new"
    /\ rt_data \in RtReports
    /\ rt_file = <<>>
    /\ rt_loaded = NoValue

\* data['timestamp'] = datetime.now().isoformat(); json.dump(data, f, ...)
SaveJson ==
    /\ rt_pc = "new"
    /\ rt_file' = json_dumps(DictSet(rt_data, TimestampKey, PyStr(IsoTimestamp(clock))), 0)
    /\ rt_pc' = "saved"
    /\ UNCHANGED <<rt_data, rt_loaded>>
    /\ UNCHANGED <<probeVars, summaryVars, pipeVars, collectVars>>

\* json.load(open(path))
LoadJson ==
    /\ rt_pc = "saved"
    /\ rt_loaded' = json_loads(rt_file)
    /\ rt_pc' = "loaded"
    /\ UNCHANGED <<rt_data, rt_file>>
    /\ UNCHANGED <<probeVars, summaryVars, pipeVars, collectVars>>

NextRoundTrip == SaveJson \/ LoadJson

SpecRoundTrip == InitRoundTrip /\ [][NextRoundTrip]_vars

(***************************************************************************)
(* SpecCollect: get_system_info applied to what the host answers.  The     *)
(* free and the available memory (in MiB) are drawn around the ties of the *)
(* rounding, available below free included.                                *)
(***************************************************************************)
FreeSamples == {0, 3, 4000, 4001, 4005, 4010, 6000, 8191}
AvailableSamples == {0, 8, 4000, 6000, 6004, 6005, 6010, 8000, 16384}

CollectReadings ==
    {Reading(1250, 6130, 8000, free, available) :
        free \in FreeSamples, available \in AvailableSamples}
    \cup {FailedReading("[Errno 13] Permission denied: '/proc/stat'")}

InitCollect ==
    /\ ProbeIdle /\ SummaryIdle /\ PipeIdle /\ JsonIdle
    /\ gs_reading \in CollectReadings
    /\ gs_out = <<>>

\* One call of get_system_info; gs_out holds what it returned or raised.
GetSystemInfo ==
    /\ gs_out = <<>>
    /\ gs_out' = <<get_system_info(gs_reading)>>
    /\ UNCHANGED gs_reading
    /\ UNCHANGED <<probeVars, summaryVars, pipeVars, jsonVars>>

NextCollect == GetSystemInfo

SpecCollect == InitCollect /\ [][NextCollect]_vars

(***************************************************************************)
(* The claims.                                                             *)
(***************************************************************************)

\* C1 (as claimed): whenever ping exits 0 and a round-trip token time=<N> or
\* time<<N> is parsed, N = 0 included, ping_host returns online = true,
\* latency_ms = N and the message "Online (Ping <host>: <N>ms)" with N
\* rounded to 0 decimals; "Online (Ping <host>: Success)" is produced only
\* when no latency was parsed.
C1_OnlineMessageCarriesLatency ==
    \A i \in 1..Len(probe_log) :
        LET e == probe_log[i]
            N == ParseLatency(e.run.stdout)
        IN  (e.run.kind = "completed" /\ e.run.returncode = 0) =>
              /\ ~e.result.raised
              /\ e.result.value.online
              /\ N # None =>
                    /\ e.result.value.latency_ms = N
                    /\ e.result.value.message =
                         "Online (Ping " \o e.host \o ": " \o Fmt0f(N) \o "ms)"
              /\ e.result.value.message = "Online (Ping " \o e.host \o ": Success)"
                    => N = None

\* C2 (as claimed): the network part of the summary line is "Online (<N>ms)"
\* for every online result with a known latency, latency 0 included,
\* "Online" exactly when online and the latency is absent, and "Offline"
\* exactly when online is false.
C2_ClaimedNetworkPart ==
    IF ~sl_net.online THEN "Offline"
    ELSE IF sl_net.latency_ms = None THEN "Online"
    ELSE "Online (" \o Fmt0f(sl_net.latency_ms) \o "ms)"

C2_NetworkPartClassified ==
    sl_out # NotRun =>
        sl_out = "CPU: " \o UsageStatus(sl_info.cpu.usage_percent)
                 \o " | Memory: " \o UsageStatus(sl_info.memory.usage_percent)
                 \o " | Disk: " \o UsageStatus(sl_info.disk.usage_percent)
                 \o " | Network: " \o C2_ClaimedNetworkPart

\* C3: the summary line labels CPU, memory and disk independently "High" when
\* usage_percent >= 80 and "Normal" when it is < 80 (79.99 is Normal, 80.00
\* is High), and it is exactly four parts joined by " | " in the order CPU,
\* Memory, Disk, Network; the string is determined by the inputs.
C3_Label(usage_percent) == IF usage_percent >= 8000 THEN "High" ELSE "Normal"

C3_NetworkLabels ==
    {"Offline", "Online"} \cup {"Online (" \o ToString(n) \o "ms)" : n \in 0..99}

C3_UsageLabelsAndOrder ==
    sl_out # NotRun =>
        /\ Len(status_parts(sl_info, sl_net)) = 4
        /\ \E x \in C3_NetworkLabels :
              sl_out = "CPU: " \o C3_Label(sl_info.cpu.usage_percent)
                       \o " | " \o "Memory: " \o C3_Label(sl_info.memory.usage_percent)
                       \o " | " \o "Disk: " \o C3_Label(sl_info.disk.usage_percent)
                       \o " | " \o "Network: " \o x

C3_Witness ==
    /\ sl_out # NotRun
    /\ sl_info.cpu.usage_percent = 7999
    /\ sl_info.memory.usage_percent = 8000
    /\ sl_info.disk.usage_percent = 0
    /\ sl_out = "CPU: Normal | Memory: High | Disk: Normal | Network: Offline"

\* C4: ping_host raises if and only if the ping tool is absent; a nonzero
\* exit status, an exceeded timeout and any other execution error each
\* return online = false with "Offline (Unable to reach <host>)",
\* "Offline (Timeout connecting to <host>)" and "Offline (Error: <detail>)".
C4_RaisesOnlyWhenPingAbsent ==
    \A i \in 1..Len(probe_log) :
        LET e == probe_log[i]
            failed == ~(e.run.kind = "completed" /\ e.run.returncode = 0)
        IN  /\ e.result.raised <=> e.run.kind = "FileNotFoundError"
            /\ (failed /\ e.run.kind # "FileNotFoundError") =>
                  /\ ~e.result.value.online
                  /\ e.result.value.message =
                       CASE e.run.kind = "completed" ->
                              "Offline (Unable to reach " \o e.host \o ")"
                         [] e.run.kind = "TimeoutExpired" ->
                              "Offline (Timeout connecting to " \o e.host \o ")"
                         [] OTHER -> "Offline (Error: " \o e.run.detail \o ")"

C4_Witness ==
    /\ Len(probe_log) = 2
    /\ probe_log[1].run.kind = "FileNotFoundError" /\ probe_log[1].result.raised
    /\ probe_log[2].run.kind = "PermissionError" /\ ~probe_log[2].result.raised
    /\ probe_log[2].result.value.message =
         "Offline (Error: [Errno 13] Permission denied: 'ping')"

\* C5: in a summary or detailed report generation (web verb or CLI), an
\* offline result of the probe (unreachable, timeout, generic probe error)
\* does not abort the pipeline: the result is kept, the report is formatted
\* with the network shown as Offline, the save is reached and, the store
\* meeting no I/O error of its own, the report is persisted and the caller
\* receives the report text and the saved path, not an error.  (With
\* --json the CLI formats no text: the data saved holds the offline result
\* and the caller receives the path.)
C5_InTrace(f, stage) == \E i \in 1..Len(f.trace) : f.trace[i] = stage

C5_OfflineMessages(host, run) ==
    {"Offline (Unable to reach " \o host \o ")",
     "Offline (Timeout connecting to " \o host \o ")",
     "Offline (Error: " \o run.detail \o ")"}

C5_ProbeWentOffline(f) ==
    /\ C5_InTrace(f, "probe")
    /\ f.run.kind # "FileNotFoundError"
    /\ ~(f.run.kind = "completed" /\ f.run.returncode = 0)

C5_TextShowsOffline(f) ==
    /\ f.report[4] =
         "System Status: CPU: " \o C3_Label(f.system_info.cpu.usage_percent)
         \o " | Memory: " \o C3_Label(f.system_info.memory.usage_percent)
         \o " | Disk: " \o C3_Label(f.system_info.disk.usage_percent)
         \o " | Network: Offline"
    /\ IF f.mode = "detailed"
       THEN /\ \E i \in 1..Len(f.report) : f.report[i] = "Status: Offline"
            /\ \A i \in 1..Len(f.report) : f.report[i] # "Status: Online"
       ELSE \E m \in C5_OfflineMessages(f.req.host, f.run) :
               f.report[Len(f.report)] = "Network: " \o m

C5_Delivered(f) ==
    /\ f.path \in DOMAIN files
    /\ f.response.err = <<>>
    /\ IF f.req.json
       THEN /\ files[f.path].data = JsonDump(f.report)
            /\ \E i \in 1..Len(files[f.path].data) :
                  files[f.path].data[i] = "    \"online\": false,"
            /\ f.response.code = 0
            /\ f.response.out =
                 <<"Collecting system information...",
                   "Checking network connectivity...",
                   "", "Report saved: " \o f.path>>
       ELSE /\ files[f.path].data = f.report
            /\ IF f.req.front = "web"
               THEN /\ f.response.code = 200
                    /\ f.response.out = f.report \o <<"", "Report saved: " \o f.path>>
               ELSE /\ f.response.code = 0
                    /\ f.response.out =
                         <<"Collecting system information...",
                           "Checking network connectivity...", "">>
                         \o f.report \o <<"", "Report saved: " \o f.path>>

\* C5 (as claimed): whenever the probe returned an offline result, the
\* generation ends with the report formatted with the network shown as
\* Offline and persisted, and the caller receives the report text and the
\* saved path, whatever the output format.
C5_CallerReceivesReportText ==
    LET f == proc[Main]
    IN  (C5_ProbeWentOffline(f) /\ f.pc = "done" /\ f.fault = NoFault) =>
          /\ C5_InTrace(f, "format")
          /\ f.path \in DOMAIN files
          /\ f.response.err = <<>>
          /\ \E i \in 1..Len(f.response.out) :
                \E u \in {"Normal", "High"} \X {"Normal", "High"} \X {"Normal", "High"} :
                   f.response.out[i] =
                     "System Status: CPU: " \o u[1] \o " | Memory: " \o u[2]
                     \o " | Disk: " \o u[3] \o " | Network: Offline"
          /\ f.response.out[Len(f.response.out)] = "Report saved: " \o f.path

\* C5 (amended): the offline result never aborts the generation, and with
\* text output the claim holds as written; with --json no text is
\* formatted, the data saved carries the offline result and the caller
\* receives the saved path only.
C5_OfflineProbeDoesNotAbort ==
    LET f == proc[Main]
    IN  C5_ProbeWentOffline(f) =>
          /\ f.fault.stage # "probe"
          /\ ~f.network_info.online
          /\ f.network_info.message \in C5_OfflineMessages(f.req.host, f.run)
          /\ f.pc \in {"save", "open", "write", "done"} =>
                (~f.req.json => C5_TextShowsOffline(f))
          /\ f.pc = "done" =>
                /\ f.trace = IF f.req.json THEN <<"collect", "probe", "save">>
                             ELSE <<"collect", "probe", "format", "save">>
                /\ f.fault.stage \in {"", "mkdir", "open", "write"}
                /\ f.fault = NoFault => C5_Delivered(f)

C5_Witness ==
    LET f == proc[Main]
    IN  /\ f.pc = "done" /\ f.mode = "detailed" /\ f.req.front = "web"
        /\ C5_ProbeWentOffline(f) /\ f.run.kind = "TimeoutExpired"
        /\ f.fault = NoFault
        /\ f.path \in DOMAIN files /\ files[f.path].data = f.report
        /\ f.response.code = 200
        /\ \E i \in 1..Len(f.response.out) : f.response.out[i] = "Status: Offline"

\* C6: when an OS query fails during get_system_info, the operation fails
\* with an error carrying the causal message and gives no snapshot; the
\* report generation ends there: the probe is not run, no report is
\* formatted, the reports directory is left as it was, and the caller gets
\* one error message.
C6_CollectionFailureIsFatal ==
    LET f == proc[Main]
        msg == "Failed to collect system information: " \o f.fault.detail
    IN  f.fault.stage = "collect" =>
          /\ f.pc = "done"
          /\ f.trace = <<"collect">>
          /\ f.system_info = NoValue /\ f.report = NoValue /\ f.path = ""
          /\ files = f.store0.files /\ dir_exists = f.store0.dir_exists
          /\ f.response =
               IF f.req.front = "web"
               THEN Response(200, <<"Error generating report: " \o msg>>, <<>>)
               ELSE Response(1, <<"Collecting system information...">>,
                             <<"", "Error: " \o msg>>)

C6_Witness ==
    LET f == proc[Main]
    IN  /\ f.fault = Fault("collect", "[Errno 13] Permission denied: '/proc/stat'")
        /\ f.req.front = "web" /\ f.mode = "summary"
        /\ f.response.out = <<"Error generating report: Failed to collect system information: [Errno 13] Permission denied: '/proc/stat'">>
        /\ files = EmptyStore

\* C7 (as claimed): a save that fails with an I/O error is wrapped into an
\* error naming the attempted operation, and the target file is never left
\* partially written: after the failed save it does not exist or holds the
\* complete content of an earlier successful save.
C7_FailedSaveLeavesNoPartialFile ==
    LET f == proc[Main]
        msg == "Failed to save " \o (IF f.req.json THEN "JSON" ELSE "text")
               \o " report: " \o f.fault.detail
    IN  f.fault.stage \in {"mkdir", "open", "write"} =>
          /\ f.pc = "done"
          /\ IF f.req.front = "web"
             THEN f.response.out = <<"Error generating report: " \o msg>>
             ELSE f.response.err = <<"", "Error: " \o msg>>
          /\ \/ f.path \notin DOMAIN files
             \/ /\ files[f.path].saved # <<>>
                /\ files[f.path].data = files[f.path].saved[1]

\* C8 (as claimed): two report generations that save in the same clock
\* minute compute the same file name and, however their save steps
\* interleave, exactly one file exists afterwards and it holds exactly the
\* complete content of the save that wrote last, never a mixture.
C8_LastWriteWinsWhole ==
    ((\A p \in Procs : proc[p].pc = "done")
        /\ \A p, q \in Procs : proc[p].path = proc[q].path) =>
       \A p \in Procs :
          /\ DOMAIN files = {proc[p].path}
          /\ files[proc[p].path].data = proc[files[proc[p].path].writer].report

\* C9: for every verb other than help, ?, summary, detailed, ping, clear
\* and cls (compared after lower-casing), the dispatcher answers with the
\* output "Unknown command: <verb>" (the verb as lower-cased) and the hint
\* to type help, with no error, and invokes neither the collector, nor the
\* probe, nor the throughput measurement, nor the report store.
C9_KnownVerbs == {"help", "?", "summary", "detailed", "ping", "clear", "cls"}

C9_UnknownVerbOnlyAnswers ==
    LET f == proc[Main]
    IN  (/\ f.pc # "idle" /\ f.req.front = "web"
         /\ ~IsBlank(f.req.command)
         /\ ParseCmd(f.req.command) \notin C9_KnownVerbs) =>
          /\ f.pc = "done"
          /\ f.response =
               Response(200, <<"Unknown command: " \o ParseCmd(f.req.command),
                               "Type 'help' for available commands.">>, <<>>)
          /\ f.trace = <<>>
          /\ f.system_info = NoValue /\ f.report = NoValue
          /\ files = f.store0.files /\ dir_exists = f.store0.dir_exists

C9_Witness ==
    LET f == proc[Main]
    IN  /\ f.pc = "done" /\ f.req.front = "web"
        /\ f.req.command = <<"f","r","o","b","n","i","c","a","t","e">>
        /\ f.response.out[1] = "Unknown command: frobnicate"
        /\ f.response.err = <<>> /\ f.trace = <<>>

\* C10 (as claimed): whatever makes the throughput measurement fail
\* (dependency missing, forbidden, connection error, any other error with
\* any raw error text), run_ookla_speedtest returns success = false, the
\* ping verb completes with no error reported, and the failure is rendered
\* in its output as exactly one line, the only one that begins
\* "Speedtest Error:".
C10_ErrorMark == <<"S","p","e","e","d","t","e","s","t"," ","E","r","r","o","r",":">>

C10_FailureIsOneErrorLine ==
    LET f == proc[Main]
    IN  f.fault.stage = "speedtest" =>
          /\ f.pc = "done"
          /\ f.response.code = 200 /\ f.response.err = <<>>
          /\ Cardinality({i \in 1..Len(f.response.out) :
                            StartsAt(f.response.out[i], 1, C10_ErrorMark)}) = 1
          /\ Len(f.response.out) = 6

\* C11: for every report data object with the keys date, system and
\* network, the file that save_json_report writes loads again, and the
\* object loaded holds date, system and network equal to the ones passed
\* in and, besides them, the timestamp key only.
C11_RoundTrip ==
    rt_pc = "loaded" =>
      /\ rt_loaded.ok
      /\ rt_loaded.val.t = "dict"
      /\ Keys(rt_loaded.val) = ReportKeys \cup {TimestampKey}
      /\ \A k \in ReportKeys : PyEq(DictGet(rt_loaded.val, k), DictGet(rt_data, k))
      /\ DictGet(rt_loaded.val, TimestampKey) = PyStr(IsoTimestamp(clock))

C11_Witness ==
    /\ rt_pc = "loaded"
    /\ rt_loaded.ok
    /\ LET network == DictGet(rt_loaded.val, <<"n","e","t","w","o","r","k">>)
           memory == DictGet(DictGet(rt_loaded.val, <<"s","y","s","t","e","m">>), <<"m","e","m","o","r","y">>)
       IN  /\ DictGet(network, <<"h","o","s","t">>) = PyStr(<<"e","x","\"","a","m","\\","p","l","e">>)
           /\ DictGet(network, <<"l","a","t","e","n","c","y","_","m","s">>) = PyNone
           /\ DictGet(memory, <<"c","a","c","h","e","d","_","g","b">>) = PyFloat(0 - 1950)
           /\ PyEq(network, DictGet(rt_data, <<"n","e","t","w","o","r","k">>))

\* C12 (as claimed): in every snapshot that get_system_info produces, for
\* every free and available memory (available below free included), the
\* stored 2-decimal fields satisfy cached_gb = available_gb - free_gb.
C12_CachedIsAvailableMinusFree ==
    \A i \in 1..Len(gs_out) :
       ~gs_out[i].raised =>
          gs_out[i].value.memory.cached_gb =
             gs_out[i].value.memory.available_gb - gs_out[i].value.memory.free_gb

\* C13: within one report generation (web summary or detailed verb, or a
\* CLI run) the components are invoked in the order collection, probe,
\* formatting, persistence, each after the one before it has returned
\* (--json has no formatting step); persistence is reached only after a
\* successful collection and a probe that returned a result, the reports
\* directory is not touched before it, and the throughput measurement is
\* never invoked.
C13_Order(f) ==
    IF f.req.json THEN <<"collect", "probe", "save">>
    ELSE <<"collect", "probe", "format", "save">>

C13_PipelineOrder ==
    LET f == proc[Main]
        order == C13_Order(f)
    IN  (f.pc # "idle" /\ f.mode # "") =>
          /\ Len(f.trace) <= Len(order)
          /\ \A i \in 1..Len(f.trace) : f.trace[i] = order[i]
          /\ f.fault.stage = "collect" => f.trace = <<"collect">>
          /\ f.fault.stage = "probe" => f.trace = <<"collect", "probe">>
          /\ Len(f.trace) >= 2 /\ f.fault.stage # "probe" =>
                /\ f.system_info # NoValue
                /\ f.network_info = ping_host(f.req.host, f.run).value
          /\ C5_InTrace(f, "format") =>
                \E t \in 0..clock :
                   f.report = format_report(f.system_info, f.network_info, f.mode, t)
          /\ C5_InTrace(f, "save") =>
                /\ f.pc \in {"open", "write", "done"}
                /\ f.fault.stage \notin {"collect", "probe"}
                /\ ~f.req.json => C5_InTrace(f, "format")
          /\ ~C5_InTrace(f, "save") =>
                files = f.store0.files /\ dir_exists = f.store0.dir_exists
          /\ ~C5_InTrace(f, "speedtest")

C13_Witness ==
    LET f == proc[Main]
    IN  /\ f.pc = "done" /\ f.mode = "summary" /\ f.req.front = "web"
        /\ f.fault = NoFault
        /\ f.trace = <<"collect", "probe", "format", "save">>
        /\ f.path \in DOMAIN files /\ files[f.path].data = f.report

\* C14 (as claimed): every result that ping_host returns, after any
\* sequence of invocations, has online = true if and only if the ping
\* process exited with status 0; online = false comes with no latency and
\* a message "Offline (...)", online = true with a message
\* "Online (Ping <host>: ...)"; host is the requested target; and a result
\* depends on its own host and probe outcome only, not on earlier calls.
C14_OnlineMessages(host) ==
    {"Online (Ping " \o host \o ": Success)"}
    \cup {"Online (Ping " \o host \o ": " \o ToString(n) \o "ms)" : n \in 0..99}

C14_ResultInvariants ==
    \A i \in 1..Len(probe_log) :
        LET e == probe_log[i]
            r == e.result.value
        IN  ~e.result.raised =>
              /\ r.online <=> e.run.returncode = 0
              /\ ~r.online =>
                    /\ r.latency_ms = None
                    /\ r.message \in C5_OfflineMessages(e.host, e.run)
              /\ r.online => r.message \in C14_OnlineMessages(e.host)
              /\ r.host = e.host
              /\ \A j \in 1..Len(probe_log) :
                    (probe_log[j].host = e.host /\ probe_log[j].run = e.run)
                       => probe_log[j].result = e.result

====
